---- MODULE Spec2Model ----
(***************************************************************************)
(* Model of load_sigtap.py: the SIGTAP file loader.  Text is modelled as   *)
(* a sequence of one-character strings, so that the regular expressions,   *)
(* the slicing and the truncation of the source are computed character by  *)
(* character.                                                              *)
(***************************************************************************)
EXTENDS Integers, Sequences, FiniteSets, TLC

VARIABLES
    pc,             \* position of main(): "start" ... "done"; "idle" outside main
    dry_run,        \* args.dry_run
    recreate,       \* args.recreate
    chunksize,      \* args.chunksize
    todo,           \* candidates main's expansion loop has not visited yet
    expanded_files, \* main's expanded_files (file ids, in insertion order)
    temp_dirs,      \* main's temp_dirs (ids of the zips whose extraction returned)
    fs_temp,        \* temporary directories that exist on disk
    layout_map,     \* main's layout_map: base key -> TableLayout
    queue,          \* sorted(expanded_files), fixed when the file loop starts
    idx,            \* 1-based position of the file loop in queue
    tables_created, \* main's tables_created (its keys)
    total_rows,     \* main's total_rows
    storage,        \* statements issued to MySQL, in order
    attempts,       \* one record per iteration of the file loop, in order
    exit_code,      \* main's return value, -1 before it returns
    fn_pc,          \* position of a single-function run: "idle", "in", "out", "again"
    fn_in,          \* its argument
    fn_out          \* its result

mainVars == <<pc, dry_run, recreate, chunksize, todo, expanded_files, temp_dirs,
              fs_temp, layout_map, queue, idx, tables_created, total_rows,
              storage, attempts, exit_code>>
fnVars == <<fn_pc, fn_in, fn_out>>
vars == <<mainVars, fnVars>>

----------------------------------------------------------------------------
(* Bounds of the model *)

\* longest run of "a" put in front of a sanitizer input
MaxPad == 64
\* longest tail of a sanitizer input
MaxTailLen == 3
\* longest path text given to the competency extractor on its own
MaxPathLen == 7
\* longest line body given to the fixed-width reader on its own
MaxLineLen == 3
\* largest start or end of a position given to the fixed-width reader on its own
MaxPos == 4
\* most rows of a layout given to the layout parser on its own
MaxLayoutRows == 2
\* most files main finds under its input path
MaxFiles == 2
\* most rows a data file holds
MaxRows == 2
\* largest --chunksize
MaxChunk == 2

----------------------------------------------------------------------------
(* Text helpers *)

\* Python's None: a value that is no text
None == <<"<None>">>

Lowers ==
    <<"a","b","c","d","e","f","g","h","i","j","k","l","m",
      "n","o","p","q","r","s","t","u","v","w","x","y","z">>
Uppers ==
    <<"A","B","C","D","E","F","G","H","I","J","K","L","M",
      "N","O","P","Q","R","S","T","U","V","W","X","Y","Z">>
DigitChars == <<"0","1","2","3","4","5","6","7","8","9">>

Range(f) == {f[i] : i \in DOMAIN f}
Min(a, b) == IF a <= b THEN a ELSE b
Max(a, b) == IF a >= b THEN a ELSE b

LowerSet == Range(Lowers)
UpperSet == Range(Uppers)
DigitSet == Range(DigitChars)

IsDigit(c) == c \in DigitSet
DigitVal(c) == (CHOOSE i \in 1..10 : DigitChars[i] = c) - 1

\* str.lower() on one character
LowerChar(c) ==
    IF c \in UpperSet THEN Lowers[CHOOSE i \in 1..26 : Uppers[i] = c] ELSE c
\* str.lower()
Lower(s) == [i \in 1..Len(s) |-> LowerChar(s[i])]

\* s[:n] for n >= 0
Take(s, n) == SubSeq(s, 1, Min(n, Len(s)))
\* s[a:b] for 0 <= a, 0 <= b
PySlice(s, a, b) == SubSeq(s, a + 1, Min(b, Len(s)))
\* s[a:] for 0 <= a
PySliceFrom(s, a) == SubSeq(s, a + 1, Len(s))

\* s.endswith(suffix)
EndsWith(s, suffix) ==
    /\ Len(s) >= Len(suffix)
    /\ SubSeq(s, Len(s) - Len(suffix) + 1, Len(s)) = suffix

\* s.strip(chars) for a set of characters
StripChars(s, chars) ==
    LET keep == {i \in 1..Len(s) : s[i] \notin chars}
    IN  IF keep = {} THEN <<>>
        ELSE SubSeq(s, CHOOSE i \in keep : \A j \in keep : i <= j,
                       CHOOSE i \in keep : \A j \in keep : i >= j)

\* re.sub(r"[<class>]+", "_", s): every maximal run of characters of the class
\* becomes one underscore
SubRuns(s, class) ==
    LET F[i \in 0..Len(s)] ==
            IF i = 0 THEN <<>>
            ELSE IF s[i] \notin class THEN Append(F[i-1], s[i])
            ELSE IF i > 1 /\ s[i-1] \in class THEN F[i-1]
            ELSE Append(F[i-1], "_")
    IN  F[Len(s)]

----------------------------------------------------------------------------
(* Identifier sanitizer *)

\* the MySQL identifier limit of sanitize_table_name
MaxIdentLen == 64

\* the characters of [a-z0-9_]
IdentChars == LowerSet \cup DigitSet \cup {"_"}
IsIdentChar(c) == c \in IdentChars

sanitize_table_name(name) ==
    LET lowered   == Lower(name)
        replaced  == SubRuns(lowered, Range(lowered) \ IdentChars)
        collapsed == StripChars(SubRuns(replaced, {"_"}), {"_"})
    IN  Take(collapsed, MaxIdentLen)

----------------------------------------------------------------------------
(* Competency extractor *)

\* int(comp[-2:]) for a text of at least two digits
LastTwo(comp) == 10 * DigitVal(comp[Len(comp) - 1]) + DigitVal(comp[Len(comp)])

\* the month check without its lower bound
MonthOkNoLowerBound(comp) == LastTwo(comp) <= 12

\* the month check: 1 <= int(comp[-2:]) <= 12
MonthOk(comp) == 1 <= LastTwo(comp) /\ LastTwo(comp) <= 12

\* r"20\d{2}[01]\d" matches s at 1-based position i
MatchYearMonth(s, i) ==
    /\ i + 5 <= Len(s)
    /\ s[i] = "2" /\ s[i+1] = "0"
    /\ IsDigit(s[i+2]) /\ IsDigit(s[i+3])
    /\ s[i+4] \in {"0", "1"}
    /\ IsDigit(s[i+5])

\* r"\d{6}" matches s at 1-based position i
MatchSixDigits(s, i) ==
    /\ i + 5 <= Len(s)
    /\ \A k \in 0..5 : IsDigit(s[i+k])

\* re.search: the leftmost of the match positions, 0 when there is none
Leftmost(hits) ==
    IF hits = {} THEN 0 ELSE CHOOSE i \in hits : \A j \in hits : i <= j

detect_competencia_from_path(s) ==
    LET m1 == Leftmost({i \in 1..Len(s) : MatchYearMonth(s, i)})
        m2 == Leftmost({i \in 1..Len(s) : MatchSixDigits(s, i)})
    IN  IF m1 # 0 /\ MonthOk(SubSeq(s, m1, m1 + 5)) THEN SubSeq(s, m1, m1 + 5)
        ELSE IF m2 # 0 /\ MonthOk(SubSeq(s, m2, m2 + 5)) THEN SubSeq(s, m2, m2 + 5)
        ELSE None

\* r"^(.*)_(\d{6})$" with a valid month: the stem without its _AAAAMM suffix
strip_competencia_suffix(stem) ==
    LET n == Len(stem)
    IN  IF /\ n >= 7
           /\ stem[n-6] = "_"
           /\ \A k \in 0..5 : IsDigit(stem[n-k])
           /\ MonthOk(stem)
        THEN SubSeq(stem, 1, n - 7)
        ELSE stem

----------------------------------------------------------------------------
(* Layout parser *)

Whitespace == {" ", "\t", "\n", "\r"}

\* str.strip()
Strip(s) == StripChars(s, Whitespace)

\* the value of a non-empty text of digits
RECURSIVE DigitsValue(_)
DigitsValue(s) ==
    IF Len(s) = 0 THEN 0
    ELSE 10 * DigitsValue(SubSeq(s, 1, Len(s) - 1)) + DigitVal(s[Len(s)])

\* An optional integer (an int or Python's None) is a sequence of at most one
\* integer: NoInt is None, <<n>> is n
NoInt == <<>>

\* int(str(x).strip()) of the try blocks: <<the integer>>, or NoInt when it raises
ParseInt(s) ==
    LET t      == Strip(s)
        signed == Len(t) >= 1 /\ t[1] \in {"+", "-"}
        body   == IF signed THEN SubSeq(t, 2, Len(t)) ELSE t
    IN  IF Len(body) = 0 \/ \E i \in 1..Len(body) : ~IsDigit(body[i]) THEN NoInt
        ELSE IF signed /\ t[1] = "-" THEN <<0 - DigitsValue(body)>>
        ELSE <<DigitsValue(body)>>

\* ColumnSpec.__init__ (mysql_type is not modelled: nothing examined here reads it)
ColumnSpec(name) == [name |-> sanitize_table_name(name), nullable |-> TRUE]

\* the try block of inicio and fim: both integers, or both None
ParsePositions(row) ==
    IF ParseInt(row.inicio) = NoInt \/ ParseInt(row.fim) = NoInt
    THEN [inicio |-> NoInt, fim |-> NoInt]
    ELSE [inicio |-> ParseInt(row.inicio), fim |-> ParseInt(row.fim)]

\* one layout row of the loop of parse_layout_dataframe
LayoutPosition(row) ==
    [coluna |-> sanitize_table_name(Strip(row.coluna)),
     inicio |-> ParsePositions(row).inicio,
     fim    |-> ParsePositions(row).fim]

\* rows with an empty column name are skipped
KeptRows(rows) == SelectSeq(rows, LAMBDA r : Strip(r.coluna) # <<>>)

\* parse_layout_dataframe on a frame that has the required columns
parse_layout_dataframe(rows) ==
    LET kept == KeptRows(rows)
    IN  [columns   |-> [i \in 1..Len(kept) |-> ColumnSpec(Strip(kept[i].coluna))],
         positions |-> [i \in 1..Len(kept) |-> LayoutPosition(kept[i])]]

\* the column names of the CREATE TABLE of ensure_table_from_layout: empty and
\* repeated names are skipped, the first occurrence is kept
DdlColumns(specs) ==
    LET F[i \in 0..Len(specs)] ==
            IF i = 0 THEN <<>>
            ELSE IF specs[i].name = <<>>
                    \/ \E j \in 1..Len(F[i-1]) : F[i-1][j] = specs[i].name
                 THEN F[i-1]
                 ELSE Append(F[i-1], specs[i].name)
    IN  F[Len(specs)]

\* the columns of the frame load_file_to_mysql hands to the write step of a
\* layout-governed file: every name of final_cols is in the frame after the
\* fill-in loop, so the selection is final_cols itself, one entry per spec
AlignedColumns(specs) == [i \in 1..Len(specs) |-> specs[i].name]

----------------------------------------------------------------------------
(* Fixed-width reader *)

\* ini taken as if inicio were 0-based
SliceStartZeroBased(col) ==
    IF col.inicio = NoInt \/ col.inicio = <<0>> THEN 1 ELSE Max(0, col.inicio[1])

\* ini of read_fixedwidth_file: max(0, (inicio or 1) - 1)
SliceStart(col) ==
    LET ini_1b == IF col.inicio = NoInt \/ col.inicio = <<0>> THEN 1 ELSE col.inicio[1]
    IN  Max(0, ini_1b - 1)

\* slice_txt of read_fixedwidth_file
SliceText(line, col) ==
    IF col.fim = NoInt
    THEN PySliceFrom(line, SliceStart(col))
    ELSE PySlice(line, SliceStart(col), Max(SliceStart(col), col.fim[1]))

\* the body of the loop over one line: the value assigned for each position, in
\* order, and the row they leave behind (assigning a name again overwrites it)
ReadFixedWidthLine(line, layout_info) ==
    LET assigned == [i \in 1..Len(layout_info) |-> Strip(SliceText(line, layout_info[i]))]
        names    == {layout_info[i].coluna : i \in 1..Len(layout_info)}
        last(n)  == CHOOSE i \in 1..Len(layout_info) :
                        /\ layout_info[i].coluna = n
                        /\ \A j \in 1..Len(layout_info) :
                               layout_info[j].coluna = n => j <= i
    IN  [assigned |-> assigned, row |-> [n \in names |-> assigned[last(n)]]]

----------------------------------------------------------------------------
(* Runs of one function on its own: the argument is drawn at the start, the
   function is applied once (twice for the sanitizer). *)

SeqsUpTo(S, n) == UNION {[1..k -> S] : k \in 0..n}

MainIdle ==
    /\ pc = "idle" /\ dry_run = FALSE /\ recreate = FALSE /\ chunksize = 1
    /\ todo = {} /\ expanded_files = <<>> /\ temp_dirs = <<>> /\ fs_temp = {}
    /\ layout_map = <<>> /\ queue = <<>> /\ idx = 1 /\ tables_created = {}
    /\ total_rows = 0 /\ storage = <<>> /\ attempts = <<>> /\ exit_code = -1

\* -- sanitize_table_name --
SanitizeAlphabet == {"a", "B", "1", "_", "-"}
SanitizeInputs ==
    {[i \in 1..k |-> "a"] \o t : k \in 0..MaxPad, t \in SeqsUpTo(SanitizeAlphabet, MaxTailLen)}

InitSanitize == MainIdle /\ fn_pc = "in" /\ fn_in \in SanitizeInputs /\ fn_out = <<>>

Sanitize ==
    /\ fn_pc = "in"
    /\ fn_out' = <<sanitize_table_name(fn_in)>>
    /\ fn_pc' = "out"
    /\ UNCHANGED <<mainVars, fn_in>>

SanitizeAgain ==
    /\ fn_pc = "out"
    /\ fn_out' = Append(fn_out, sanitize_table_name(fn_out[1]))
    /\ fn_pc' = "again"
    /\ UNCHANGED <<mainVars, fn_in>>

NextSanitize == Sanitize \/ SanitizeAgain
SpecSanitize == InitSanitize /\ [][NextSanitize]_vars

\* -- detect_competencia_from_path --
PathAlphabet == {"0", "1", "2", "3", "_"}
\* a directory whose six digits end in month 13, then a file name with 202301
TwoRunsPath == <<"2","0","0","0","1","3","_","2","0","2","3","0","1">>
PathInputs == SeqsUpTo(PathAlphabet, MaxPathLen) \cup {TwoRunsPath}

InitCompetencia == MainIdle /\ fn_pc = "in" /\ fn_in \in PathInputs /\ fn_out = <<>>

DetectCompetencia ==
    /\ fn_pc = "in"
    /\ fn_out' = detect_competencia_from_path(fn_in)
    /\ fn_pc' = "out"
    /\ UNCHANGED <<mainVars, fn_in>>

NextCompetencia == DetectCompetencia
SpecCompetencia == InitCompetencia /\ [][NextCompetencia]_vars

\* -- read_fixedwidth_file, one line --
LineAlphabet == {"A", " "}
ExampleLine == <<"A", "B", "C", "D", "E", "F">>
ExampleLayout ==
    <<[coluna |-> <<"a">>, inicio |-> <<1>>, fim |-> <<3>>],
      [coluna |-> <<"b">>, inicio |-> <<4>>, fim |-> <<6>>]>>
LineBodies == SeqsUpTo(LineAlphabet, MaxLineLen) \cup {ExampleLine}
\* a line as the file iterator yields it: with its newline, or the last line without
LineInputs == LineBodies \cup {b \o <<"\n">> : b \in LineBodies}
OptionalPos == {NoInt} \cup {<<n>> : n \in 0..MaxPos}
PositionInputs == [coluna : {<<"a">>, <<"b">>}, inicio : OptionalPos, fim : OptionalPos]
LayoutInfoInputs ==
    {<<p>> : p \in PositionInputs}
        \cup {<<p, q>> : p \in PositionInputs, q \in PositionInputs}
        \cup {ExampleLayout}

InitFixedWidth ==
    /\ MainIdle /\ fn_pc = "in" /\ fn_out = <<>>
    /\ fn_in \in [line : LineInputs, layout_info : LayoutInfoInputs]

ReadLine ==
    /\ fn_pc = "in"
    /\ fn_out' = ReadFixedWidthLine(fn_in.line, fn_in.layout_info)
    /\ fn_pc' = "out"
    /\ UNCHANGED <<mainVars, fn_in>>

NextFixedWidth == ReadLine
SpecFixedWidth == InitFixedWidth /\ [][NextFixedWidth]_vars

\* -- parse_layout_dataframe --
LongName == [i \in 1..(MaxIdentLen + 1) |-> "a"]
RawNames == {<<"a">>, <<"A">>, <<"-", "-">>, <<" ">>, LongName}
LayoutRowInputs ==
    [coluna  : RawNames,
     tamanho : {<<"3">>, <<"x">>},
     inicio  : {<<"5">>, <<"x">>},
     fim     : {<<"7">>, <<>>}]
LayoutInputs == SeqsUpTo(LayoutRowInputs, MaxLayoutRows)

InitLayout == MainIdle /\ fn_pc = "in" /\ fn_in \in LayoutInputs /\ fn_out = <<>>

ParseLayout ==
    /\ fn_pc = "in"
    /\ fn_out' = parse_layout_dataframe(fn_in)
    /\ fn_pc' = "out"
    /\ UNCHANGED <<mainVars, fn_in>>

\* the layout branch of load_file_to_mysql on the parsed layout: the table is
\* provisioned from layout.columns, then the frame is aligned to the layout
AlignToLayout ==
    /\ fn_pc = "out"
    /\ fn_out' = [columns       |-> fn_out.columns,
                  positions     |-> fn_out.positions,
                  table_columns |-> DdlColumns(fn_out.columns),
                  frame_columns |-> AlignedColumns(fn_out.columns)]
    /\ fn_pc' = "aligned"
    /\ UNCHANGED <<mainVars, fn_in>>

NextLayout == ParseLayout \/ AlignToLayout
SpecLayout == InitLayout /\ [][NextLayout]_vars

----------------------------------------------------------------------------
(* The files a run can find.  A file is known by an id; FileTable gives its
   path (the parts of its directory, its stem, its suffix), for a ZIP the
   files it holds once extracted, and for a layout descriptor its content. *)

W_producao == <<"p","r","o","d","u","c","a","o">>
W_tabela   == <<"t","a","b","e","l","a">>
W_layout   == <<"_","l","a","y","o","u","t">>
W_202301   == <<"2","0","2","3","0","1">>
W_202302   == <<"2","0","2","3","0","2">>
E_txt == <<".","t","x","t">>
E_csv == <<".","c","s","v">>
E_zip == <<".","z","i","p">>
E_dbf == <<".","d","b","f">>
D_root == <<<<"d">>>>
D_tmp  == <<<<"t","m","p">>, <<"s","i","g","t","a","p","_","z","i","p","_","a">>>>

NoDf == [header_ok |-> FALSE, rows |-> <<>>]
TabelaDf ==
    [header_ok |-> TRUE,
     rows |-> <<[coluna |-> <<"c","o">>, tamanho |-> <<"3">>, inicio |-> <<"1">>, fim |-> <<"3">>],
                [coluna |-> <<"n","o">>, tamanho |-> <<"3">>, inicio |-> <<"4">>, fim |-> <<"6">>]>>]

File(dir, stem, ext, inner, df) ==
    [dir |-> dir, stem |-> stem, ext |-> ext, inner |-> inner, df |-> df]

FileTable ==
    <<File(D_root, W_producao \o <<"_">> \o W_202301, E_txt, {}, NoDf),
      File(Append(D_root, W_202301), W_producao, E_txt, {}, NoDf),
      File(Append(D_root, W_202302), W_producao, E_txt, {}, NoDf),
      File(D_root, W_tabela \o W_layout, E_csv, {}, TabelaDf),
      File(D_root, W_tabela \o <<"_">> \o W_202301, E_txt, {}, NoDf),
      File(D_root, W_tabela \o <<"_">> \o W_202301 \o W_layout, E_csv, {}, TabelaDf),
      File(D_root, <<"a">>, E_zip, {8}, NoDf),
      File(D_tmp, W_producao, E_dbf, {}, NoDf)>>

\* the files main can find under its input path (file 8 exists only inside the ZIP)
CandidateIds == 1..7

\* str(path) of a directory: "/" and its parts joined by "/"
RECURSIVE DirText(_)
DirText(parts) ==
    IF Len(parts) = 0 THEN <<>>
    ELSE DirText(SubSeq(parts, 1, Len(parts) - 1)) \o <<"/">> \o parts[Len(parts)]

\* str(fp.parent)
ParentText(f) == DirText(FileTable[f].dir)
\* str(fp)
PathText(f) == ParentText(f) \o <<"/">> \o FileTable[f].stem \o FileTable[f].ext
\* fp.parts without the root
PathParts(f) == Append(FileTable[f].dir, FileTable[f].stem \o FileTable[f].ext)

\* the characters of the model in code-point order
Ascii ==
    <<"\n", " ", "+", "-", ".", "/">> \o DigitChars \o Uppers \o <<"_">> \o Lowers
Ord(c) == CHOOSE i \in 1..Len(Ascii) : Ascii[i] = c

\* a < b for two texts
StrLess(a, b) ==
    \E k \in 1..(Min(Len(a), Len(b)) + 1) :
        /\ \A j \in 1..(k - 1) : a[j] = b[j]
        /\ \/ k > Len(a) /\ k <= Len(b)
           \/ k <= Len(a) /\ k <= Len(b) /\ Ord(a[k]) < Ord(b[k])

\* a < b for two paths: their parts compared in order
PathLess(f, g) ==
    LET a == PathParts(f)
        b == PathParts(g)
    IN  \E k \in 1..(Min(Len(a), Len(b)) + 1) :
            /\ \A j \in 1..(k - 1) : a[j] = b[j]
            /\ \/ k > Len(a) /\ k <= Len(b)
               \/ k <= Len(a) /\ k <= Len(b) /\ StrLess(a[k], b[k])

\* sorted(expanded_files)
RECURSIVE SortFiles(_)
SortFiles(S) ==
    IF S = {} THEN <<>>
    ELSE LET m == CHOOSE x \in S : \A y \in S \ {x} : PathLess(x, y)
         IN  <<m>> \o SortFiles(S \ {m})

IsSupported(f) == Lower(FileTable[f].ext) \in {E_txt, E_csv, E_zip, E_dbf}
IsZip(f) == Lower(FileTable[f].ext) = E_zip
\* fp.stem.lower().endswith('_layout')
IsLayoutStem(f) == EndsWith(Lower(FileTable[f].stem), W_layout)

----------------------------------------------------------------------------
(* Dictionaries that keep insertion order: a sequence of [key, val] entries *)

DictHas(d, k) == \E i \in 1..Len(d) : d[i].key = k
DictGet(d, k) == d[CHOOSE i \in 1..Len(d) : d[i].key = k].val
DictPut(d, k, v) ==
    IF DictHas(d, k)
    THEN [i \in 1..Len(d) |-> IF d[i].key = k THEN [key |-> k, val |-> v] ELSE d[i]]
    ELSE Append(d, [key |-> k, val |-> v])

----------------------------------------------------------------------------
(* Layout discovery and table provisioning *)

\* a statement issued to MySQL
Statement(op, table, mode, rows, cols) ==
    [op |-> op, table |-> table, mode |-> mode, rows |-> rows, cols |-> cols]

\* the key of load_layouts_from_files: sanitize_table_name(stem.lower()[:-7])
LayoutKey(f) ==
    sanitize_table_name(
        SubSeq(Lower(FileTable[f].stem), 1, Len(FileTable[f].stem) - Len(W_layout)))

\* a layout descriptor that load_layouts_from_files reads without an exception
IsReadableLayout(f) ==
    /\ IsLayoutStem(f)
    /\ Lower(FileTable[f].ext) \in {E_txt, E_csv}
    /\ FileTable[f].df.header_ok

load_layouts_from_files(files) ==
    LET F[i \in 0..Len(files)] ==
            IF i = 0 THEN <<>>
            ELSE IF IsReadableLayout(files[i])
                 THEN DictPut(F[i-1], LayoutKey(files[i]),
                              parse_layout_dataframe(FileTable[files[i]].df.rows))
                 ELSE F[i-1]
    IN  F[Len(files)]

\* the statements of ensure_table_from_layout
ensure_table_from_layout(table_name, specs, rec) ==
    (IF rec THEN <<Statement("DROP TABLE", table_name, "", 0, <<>>)>> ELSE <<>>)
        \o <<Statement("CREATE TABLE", table_name, "", 0, DdlColumns(specs))>>

\* the loop of main that creates the table of every layout up front
ProvisionStatements(lmap, rec) ==
    LET F[i \in 0..Len(lmap)] ==
            IF i = 0 THEN <<>>
            ELSE F[i-1] \o ensure_table_from_layout(lmap[i].key, lmap[i].val.columns, rec)
    IN  F[Len(lmap)]

----------------------------------------------------------------------------
(* load_file_to_mysql and the decisions main takes for one file *)

\* base_key of main: sanitize_table_name(strip_competencia_suffix(fp.stem))
DataKey(f) == sanitize_table_name(strip_competencia_suffix(FileTable[f].stem))

\* the key main records in tables_created
CreatedKey(f) == sanitize_table_name(FileTable[f].stem)

\* competencia of load_file_to_mysql: the override main passes, else the path's
Competencia(f) ==
    IF detect_competencia_from_path(ParentText(f)) # None
    THEN detect_competencia_from_path(ParentText(f))
    ELSE detect_competencia_from_path(PathText(f))

\* table_name of load_file_to_mysql; force_table_name is base_key when governed
TableName(f, governed) ==
    LET base == sanitize_table_name(FileTable[f].stem)
    IN  IF governed /\ DataKey(f) # <<>> THEN sanitize_table_name(DataKey(f))
        ELSE IF Competencia(f) # None
             THEN sanitize_table_name(base \o <<"_">> \o Competencia(f))
        ELSE base

\* tname of the dry-run branch of main
DryRunTableName(f) ==
    LET comp == detect_competencia_from_path(PathText(f))
    IN  sanitize_table_name(
            FileTable[f].stem \o (IF comp # None THEN <<"_">> \o comp ELSE <<>>))

\* What main and load_file_to_mysql derive from a path does not change during a
\* run: it is computed once per file here and looked up by the actions.
FileIds == DOMAIN FileTable
data_key       == [f \in FileIds |-> DataKey(f)]
created_key    == [f \in FileIds |-> CreatedKey(f)]
competencia    == [f \in FileIds |-> Competencia(f)]
table_name     == [f \in FileIds |-> [governed \in BOOLEAN |-> TableName(f, governed)]]
dry_table_name == [f \in FileIds |-> DryRunTableName(f)]
layout_stem    == [f \in FileIds |-> IsLayoutStem(f)]
path_less      == [f \in FileIds |-> [g \in FileIds |-> PathLess(f, g)]]

\* the row counts of the to_sql calls of one file
Batches(rows, cs) ==
    IF rows = 0 THEN <<0>>
    ELSE IF rows > cs
         THEN [i \in 1..((rows + cs - 1) \div cs) |-> Min(cs, rows - (i - 1) * cs)]
    ELSE <<rows>>

\* if_exists of main
IfExists(f, governed, rec, created) ==
    IF governed THEN "append"
    ELSE IF rec /\ created_key[f] \notin created THEN "replace"
    ELSE "append"

\* if_exists of the i-th to_sql call of one file
BatchMode(i, if_exists) == IF i = 1 THEN if_exists ELSE "append"

\* written of load_file_to_mysql
RECURSIVE Written(_)
Written(batches) ==
    IF Len(batches) = 0 THEN 0
    ELSE Written(SubSeq(batches, 1, Len(batches) - 1)) + batches[Len(batches)]

\* the statements load_file_to_mysql issues when its first n to_sql calls return
LoadStatements(f, governed, if_exists, batches, n) ==
    LET table == table_name[f][governed]
        specs == IF governed THEN DictGet(layout_map, data_key[f]).columns ELSE <<>>
        cols  == AlignedColumns(specs)
    IN  (IF governed THEN ensure_table_from_layout(table, specs, FALSE) ELSE <<>>)
            \o [i \in 1..n |->
                   Statement("WRITE", table, BatchMode(i, if_exists), batches[i], cols)]

\* an except branch that leaves the file loop
AfterFailureLeavesLoop(i, n) == n + 1

\* the except branch of the file loop: the loop goes on with the next file
AfterFailure(i, n) == i + 1

\* total_rows += written
AddRows(total, written) == total + written

Attempt(f, kind, table, governed, if_exists, modes, written) ==
    [file |-> f, kind |-> kind, table |-> table, governed |-> governed,
     if_exists |-> if_exists, modes |-> modes, written |-> written]

----------------------------------------------------------------------------
(* main *)

FnIdle == fn_pc = "idle" /\ fn_in = <<>> /\ fn_out = <<>>

Init ==
    /\ FnIdle
    /\ pc = "start"
    /\ dry_run \in BOOLEAN
    /\ recreate \in BOOLEAN
    /\ chunksize \in 1..MaxChunk
    /\ todo \in {S \in SUBSET CandidateIds : Cardinality(S) <= MaxFiles}
    /\ expanded_files = <<>> /\ temp_dirs = <<>> /\ fs_temp = {}
    /\ layout_map = <<>> /\ queue = <<>> /\ idx = 1 /\ tables_created = {}
    /\ total_rows = 0 /\ storage = <<>> /\ attempts = <<>> /\ exit_code = -1

runVars == <<dry_run, recreate, chunksize>>
loopVars == <<layout_map, queue, idx, tables_created, total_rows, attempts>>

\* the input path does not exist: return 2
RootMissing ==
    /\ pc = "start"
    /\ exit_code' = 2
    /\ pc' = "done"
    /\ UNCHANGED <<runVars, todo, expanded_files, temp_dirs, fs_temp, loopVars,
                   storage, fnVars>>

\* ensure_database raises: return 3
EnsureDatabaseFails ==
    /\ pc = "start"
    /\ exit_code' = 3
    /\ pc' = "done"
    /\ UNCHANGED <<runVars, todo, expanded_files, temp_dirs, fs_temp, loopVars,
                   storage, fnVars>>

\* ensure_database and make_engine
EnsureDatabase ==
    /\ pc = "start"
    /\ storage' = Append(storage, Statement("CREATE DATABASE", <<>>, "", 0, <<>>))
    /\ pc' = "discover"
    /\ UNCHANGED <<runVars, todo, expanded_files, temp_dirs, fs_temp, loopVars,
                   exit_code, fnVars>>

\* no supported file under the input path: return 0
NoCandidates ==
    /\ pc = "discover"
    /\ todo = {}
    /\ exit_code' = 0
    /\ pc' = "done"
    /\ UNCHANGED <<runVars, todo, expanded_files, temp_dirs, fs_temp, loopVars,
                   storage, fnVars>>

\* main enters the try block and the loop over candidates
StartExpand ==
    /\ pc = "discover"
    /\ todo # {}
    /\ pc' = "expand"
    /\ UNCHANGED <<runVars, todo, expanded_files, temp_dirs, fs_temp, loopVars,
                   storage, exit_code, fnVars>>

\* a candidate that is no ZIP
KeepFile(f) ==
    /\ pc = "expand"
    /\ f \in todo
    /\ ~IsZip(f)
    /\ expanded_files' = Append(expanded_files, f)
    /\ todo' = todo \ {f}
    /\ UNCHANGED <<pc, runVars, temp_dirs, fs_temp, loopVars, storage, exit_code,
                   fnVars>>

\* a ZIP whose extraction returns: mkdtemp, extractall, then the inner files
ExtractZip(f) ==
    /\ pc = "expand"
    /\ f \in todo
    /\ IsZip(f)
    /\ fs_temp' = fs_temp \cup {f}
    /\ temp_dirs' = Append(temp_dirs, f)
    /\ expanded_files' =
           expanded_files
               \o SortFiles({g \in FileTable[f].inner : IsSupported(g) /\ ~IsZip(g)})
    /\ todo' = todo \ {f}
    /\ UNCHANGED <<pc, runVars, loopVars, storage, exit_code, fnVars>>

\* a ZIP whose extractall raises after mkdtemp made the directory: the exception
\* leaves extract_zip_to_temp, so main never learns the directory
ExtractZipFails(f) ==
    /\ pc = "expand"
    /\ f \in todo
    /\ IsZip(f)
    /\ fs_temp' = fs_temp \cup {f}
    /\ todo' = todo \ {f}
    /\ UNCHANGED <<pc, runVars, expanded_files, temp_dirs, loopVars, storage,
                   exit_code, fnVars>>

\* nothing to process once the ZIPs are expanded: return 0 through finally
NothingExpanded ==
    /\ pc = "expand"
    /\ todo = {}
    /\ expanded_files = <<>>
    /\ exit_code' = 0
    /\ pc' = "finally"
    /\ UNCHANGED <<runVars, todo, expanded_files, temp_dirs, fs_temp, loopVars,
                   storage, fnVars>>

\* load_layouts_from_files
LoadLayouts ==
    /\ pc = "expand"
    /\ todo = {}
    /\ expanded_files # <<>>
    /\ layout_map' = load_layouts_from_files(expanded_files)
    /\ pc' = "provision"
    /\ UNCHANGED <<runVars, todo, expanded_files, temp_dirs, fs_temp, queue, idx,
                   tables_created, total_rows, attempts, storage, exit_code, fnVars>>

\* the tables of all layouts are created, then the file loop starts
ProvisionLayouts ==
    /\ pc = "provision"
    /\ storage' = storage \o ProvisionStatements(layout_map, recreate)
    /\ queue' = SortFiles(Range(expanded_files))
    /\ idx' = 1
    /\ pc' = "files"
    /\ UNCHANGED <<runVars, todo, expanded_files, temp_dirs, fs_temp, layout_map,
                   tables_created, total_rows, attempts, exit_code, fnVars>>

\* one iteration of the file loop in dry-run mode
DryRunFile ==
    /\ pc = "files"
    /\ idx <= Len(queue)
    /\ dry_run
    /\ attempts' = Append(attempts,
           Attempt(queue[idx], "dry_run", dry_table_name[queue[idx]], FALSE, "", <<>>, 0))
    /\ idx' = idx + 1
    /\ UNCHANGED <<pc, runVars, todo, expanded_files, temp_dirs, fs_temp, layout_map,
                   queue, tables_created, total_rows, storage, exit_code, fnVars>>

\* one iteration of the file loop on a layout descriptor: skipped
SkipLayoutFile ==
    /\ pc = "files"
    /\ idx <= Len(queue)
    /\ ~dry_run
    /\ layout_stem[queue[idx]]
    /\ attempts' = Append(attempts,
           Attempt(queue[idx], "layout", <<>>, FALSE, "", <<>>, 0))
    /\ idx' = idx + 1
    /\ UNCHANGED <<pc, runVars, todo, expanded_files, temp_dirs, fs_temp, layout_map,
                   queue, tables_created, total_rows, storage, exit_code, fnVars>>

\* one iteration of the file loop in which load_file_to_mysql returns
LoadFile(rows) ==
    /\ pc = "files"
    /\ idx <= Len(queue)
    /\ ~dry_run
    /\ ~layout_stem[queue[idx]]
    /\ LET f         == queue[idx]
           governed  == DictHas(layout_map, data_key[f])
           if_exists == IfExists(f, governed, recreate, tables_created)
           batches   == Batches(rows, chunksize)
           n         == Len(batches)
       IN  /\ storage' = storage \o LoadStatements(f, governed, if_exists, batches, n)
           /\ tables_created' = tables_created \cup {created_key[f]}
           /\ total_rows' = AddRows(total_rows, Written(batches))
           /\ attempts' = Append(attempts,
                  Attempt(f, "loaded", table_name[f][governed], governed, if_exists,
                          [i \in 1..n |-> BatchMode(i, if_exists)], Written(batches)))
    /\ idx' = idx + 1
    /\ UNCHANGED <<pc, runVars, todo, expanded_files, temp_dirs, fs_temp, layout_map,
                   queue, exit_code, fnVars>>

\* one iteration of the file loop in which load_file_to_mysql raises: while reading
\* (failAt = 0, nothing is issued) or in its failAt-th to_sql call
LoadFileRaises(rows, failAt) ==
    /\ pc = "files"
    /\ idx <= Len(queue)
    /\ ~dry_run
    /\ ~layout_stem[queue[idx]]
    /\ failAt = 0 => rows = 0
    /\ failAt <= Len(Batches(rows, chunksize))
    /\ LET f         == queue[idx]
           governed  == DictHas(layout_map, data_key[f])
           if_exists == IfExists(f, governed, recreate, tables_created)
           batches   == Batches(rows, chunksize)
           n         == failAt - 1
       IN  /\ storage' =
                  IF failAt = 0 THEN storage
                  ELSE storage \o LoadStatements(f, governed, if_exists, batches, n)
           /\ attempts' = Append(attempts,
                  Attempt(f, "failed", table_name[f][governed], governed, if_exists,
                          [i \in 1..Max(n, 0) |-> BatchMode(i, if_exists)], 0))
           /\ idx' = AfterFailure(idx, Len(queue))
    /\ UNCHANGED <<pc, runVars, todo, expanded_files, temp_dirs, fs_temp, layout_map,
                   queue, tables_created, total_rows, exit_code, fnVars>>

\* the file loop is over: return 0 through finally
Finish ==
    /\ pc = "files"
    /\ idx > Len(queue)
    /\ exit_code' = 0
    /\ pc' = "finally"
    /\ UNCHANGED <<runVars, todo, expanded_files, temp_dirs, fs_temp, loopVars,
                   storage, fnVars>>

\* the finally block: shutil.rmtree of every directory in temp_dirs
Cleanup ==
    /\ pc = "finally"
    /\ fs_temp' = fs_temp \ Range(temp_dirs)
    /\ pc' = "done"
    /\ UNCHANGED <<runVars, todo, expanded_files, temp_dirs, loopVars, storage,
                   exit_code, fnVars>>

Next ==
    \/ RootMissing
    \/ EnsureDatabaseFails
    \/ EnsureDatabase
    \/ NoCandidates
    \/ StartExpand
    \/ \E f \in CandidateIds : KeepFile(f)
    \/ \E f \in CandidateIds : ExtractZip(f)
    \/ \E f \in CandidateIds : ExtractZipFails(f)
    \/ NothingExpanded
    \/ LoadLayouts
    \/ ProvisionLayouts
    \/ DryRunFile
    \/ SkipLayoutFile
    \/ \E rows \in 0..MaxRows : LoadFile(rows)
    \/ \E rows \in 0..MaxRows, failAt \in 0..MaxRows : LoadFileRaises(rows, failAt)
    \/ Finish
    \/ Cleanup

Spec == Init /\ [][Next]_vars

----------------------------------------------------------------------------
(* Properties *)

IsLoadAttempt(a) == a.kind \in {"loaded", "failed"}

\* C1: a data file with no governing layout whose stem already ends in its detected
\* competency is loaded into the table named by the sanitized stem, which carries
\* the competency suffix exactly once (producao_202301.txt -> producao_202301).
C1_TableNameSuffixOnce ==
    \A i \in 1..Len(attempts) :
        LET a == attempts[i]
            f == a.file
        IN  ( /\ IsLoadAttempt(a)
              /\ ~a.governed
              /\ competencia[f] # None
              /\ EndsWith(FileTable[f].stem, <<"_">> \o competencia[f]) )
            => a.table = sanitize_table_name(FileTable[f].stem)

C2_SelectedMode == IF recreate THEN "replace" ELSE "append"

\* C2: for every table no layout governs, the first batch written to it in the run
\* uses the caller-selected mode (replace under --recreate, else append), and every
\* later batch written to it, from the same file or a later one, uses append.
C2_FirstBatchSelectedMode ==
    \A i \in 1..Len(attempts) :
        LET a == attempts[i]
            written_before ==
                \E j \in 1..(i - 1) :
                    attempts[j].table = a.table /\ Len(attempts[j].modes) >= 1
        IN  (IsLoadAttempt(a) /\ ~a.governed /\ Len(a.modes) >= 1)
            => /\ a.modes[1] = (IF written_before THEN "append" ELSE C2_SelectedMode)
               /\ \A k \in 2..Len(a.modes) : a.modes[k] = "append"

\* C3: in dry-run mode no statement reaches storage between the start of main and
\* its return: no CREATE DATABASE, DROP TABLE, CREATE TABLE and no row write.
C3_DryRunIssuesNothing == dry_run => storage = <<>>

\* C4: sanitize_table_name is idempotent: sanitizing a sanitized name gives it back.
C4_SanitizeIdempotent == fn_pc = "again" => fn_out[2] = fn_out[1]

\* the characters of line at the 1-based positions s..e that the line has
C5_ClaimedSlice(line, s, e) ==
    [k \in 1..(Min(e, Len(line)) - s + 1) |-> line[s + k - 1]]

\* C5: for every line and every position with 1-based inclusive start s >= 1 and
\* end e, the value stored for the position is the whitespace-trimmed text of the
\* characters s..e of the line (s..end of line when e is absent), empty or a prefix
\* when the line is shorter; it is the value the row keeps under the column unless a
\* later position names the column again; [{a,1,3},{b,4,6}] on "ABCDEF" gives
\* {a:"ABC", b:"DEF"}.
C5_FixedWidthSlices ==
    fn_pc = "out" =>
        LET line == fn_in.line
            info == fn_in.layout_info
        IN  /\ \A i \in 1..Len(info) :
                   (info[i].inicio # NoInt /\ info[i].inicio[1] >= 1) =>
                       LET e == IF info[i].fim = NoInt THEN Len(line) ELSE info[i].fim[1]
                           v == Strip(C5_ClaimedSlice(line, info[i].inicio[1], e))
                       IN  /\ fn_out.assigned[i] = v
                           /\ (\A j \in (i + 1)..Len(info) : info[j].coluna # info[i].coluna)
                                  => fn_out.row[info[i].coluna] = v
            /\ (line = ExampleLine /\ info = ExampleLayout) =>
                   fn_out.row = (<<"a">> :> <<"A", "B", "C">> @@ <<"b">> :> <<"D", "E", "F">>)

\* C5 happens: a line shorter than the declared range of a position was read, and
\* the position got the part of the range the line has
C5_Witness ==
    /\ fn_pc = "out"
    /\ fn_in.line = <<"A", "A", "A", "\n">>
    /\ fn_in.layout_info = <<[coluna |-> <<"a">>, inicio |-> <<2>>, fim |-> <<4>>]>>
    /\ fn_out.row[<<"a">>] = <<"A", "A">>

\* C6: every tag detect_competencia_from_path returns is 6 digits long and its last
\* two digits are a month from 01 to 12; otherwise it returns None.
C6_CompetenciaValid ==
    (fn_pc = "out" /\ fn_out # None) =>
        /\ Len(fn_out) = 6
        /\ \A i \in 1..Len(fn_out) : IsDigit(fn_out[i])
        /\ 10 * DigitVal(fn_out[5]) + DigitVal(fn_out[6]) \in 1..12

\* C6 happens: the year-month pattern found 200113, whose month is 13, and the tag
\* returned is the valid one the six-digit pattern found
C6_Witness ==
    /\ fn_pc = "out"
    /\ fn_in = <<"1", "2", "0", "0", "1", "1", "3">>
    /\ fn_out = <<"1", "2", "0", "0", "1", "1">>

\* C11: whenever the path text holds six consecutive digits whose last two are a
\* month from 01 to 12, detect_competencia_from_path returns a tag and not None,
\* also when an earlier six-digit run of the path has an invalid month.
C11_DetectionComplete ==
    ( /\ fn_pc = "out"
      /\ \E i \in 1..Len(fn_in) :
             /\ MatchSixDigits(fn_in, i)
             /\ 10 * DigitVal(fn_in[i+4]) + DigitVal(fn_in[i+5]) \in 1..12 )
    => fn_out # None

\* the key the claim gives a layout file: its sanitized stem without _layout and
\* without a trailing valid _AAAAMM
C7_ClaimedKey(f) ==
    sanitize_table_name(
        strip_competencia_suffix(
            SubSeq(FileTable[f].stem, 1, Len(FileTable[f].stem) - Len(W_layout))))

\* C7: the key under which a layout is stored is the sanitized layout-file stem with
\* _layout removed and a trailing valid _AAAAMM stripped, so that a data file whose
\* stem is the layout's stem without _layout is governed by it
\* (tabela_202301_layout.csv governs tabela_202301.txt).
C7_LayoutKeyIsStrippedStem ==
    /\ pc \in {"provision", "files", "finally", "done"} =>
           \A i \in 1..Len(expanded_files) :
               IsReadableLayout(expanded_files[i]) =>
                   DictHas(layout_map, C7_ClaimedKey(expanded_files[i]))
    /\ \A i \in 1..Len(attempts) :
           ( /\ IsLoadAttempt(attempts[i])
             /\ \E j \in 1..Len(expanded_files) :
                    /\ IsReadableLayout(expanded_files[j])
                    /\ FileTable[expanded_files[j]].stem
                           = FileTable[attempts[i].file].stem \o W_layout )
           => attempts[i].governed

\* C8: every temporary directory made during the run is gone when main returns,
\* also when a ZIP extraction failed part-way or a file load raised.
C8_TempDirsRemovedAtReturn == pc = "done" => fs_temp = {}

RECURSIVE C9_CompletedRows(_)
C9_CompletedRows(as) ==
    IF Len(as) = 0 THEN 0
    ELSE C9_CompletedRows(SubSeq(as, 1, Len(as) - 1))
             + (IF as[Len(as)].kind = "loaded" THEN as[Len(as)].written ELSE 0)

\* C9: once the file loop is reached, every file of expanded_files is attempted, in
\* sorted order, whether or not an earlier file raised; main then returns 0; and
\* the row count it reports is the sum of the counts of the files that completed.
C9_FailureIsolation ==
    (pc = "files" \/ (pc \in {"finally", "done"} /\ queue # <<>>)) =>
        /\ Len(queue) = Len(expanded_files)
        /\ Range(queue) = Range(expanded_files)
        /\ \A i, j \in 1..Len(queue) : i < j => path_less[queue[i]][queue[j]]
        /\ Len(attempts) <= Len(queue)
        /\ \A i \in 1..Len(attempts) : attempts[i].file = queue[i]
        /\ total_rows = C9_CompletedRows(attempts)
        /\ pc \in {"finally", "done"} =>
               /\ Len(attempts) = Len(queue)
               /\ exit_code = 0

\* C9 happens: main returned after a file raised and a later file loaded rows
C9_Witness ==
    /\ pc = "done"
    /\ \E i, j \in 1..Len(attempts) :
           /\ i < j
           /\ attempts[i].kind = "failed"
           /\ attempts[j].kind = "loaded"
           /\ attempts[j].written > 0

\* C10: every ColumnSpec parse_layout_dataframe returns has a name that is not
\* empty, at most 64 characters long and made of a-z, 0-9 and _ only, and the
\* LayoutPosition at the same index carries the same name.
C10_ColumnNamesValid ==
    fn_pc = "out" =>
        /\ Len(fn_out.columns) = Len(fn_out.positions)
        /\ \A i \in 1..Len(fn_out.columns) :
               /\ fn_out.columns[i].name # <<>>
               /\ Len(fn_out.columns[i].name) <= 64
               /\ \A k \in 1..Len(fn_out.columns[i].name) :
                      IsIdentChar(fn_out.columns[i].name[k])
               /\ fn_out.positions[i].coluna = fn_out.columns[i].name

\* C12: start and end of a layout row are parsed each on its own: every emitted
\* position, in the order of the rows with a column name, carries the integer
\* its own field parses to and null only where that field does not parse, so a
\* row with start 5 and an unparseable end yields start 5 and end null.
C12_PositionsParsedPerField ==
    fn_pc = "out" =>
        LET kept == KeptRows(fn_in)
        IN  /\ Len(fn_out.positions) = Len(kept)
            /\ \A i \in 1..Len(kept) :
                   /\ fn_out.positions[i].coluna
                          = sanitize_table_name(Strip(kept[i].coluna))
                   /\ fn_out.positions[i].inicio = ParseInt(kept[i].inicio)
                   /\ fn_out.positions[i].fim = ParseInt(kept[i].fim)

\* C13: for a layout-governed file the column sequence of the frame handed to
\* the write step equals the column sequence of the table that
\* ensure_table_from_layout provisions from the same layout: same names, same
\* order, each name once, also when the layout repeats a column name.
C13_FrameColumnsMatchTable ==
    fn_pc = "aligned" =>
        /\ fn_out.frame_columns = fn_out.table_columns
        /\ \A i, j \in 1..Len(fn_out.frame_columns) :
               fn_out.frame_columns[i] = fn_out.frame_columns[j] => i = j

====
